---- MODULE Spec2Model ----
(***************************************************************************)
(* The work-distribution and recovery core of hyperion-backend:            *)
(*   - ai_worker_process  (app/api/dashboard_utils/utils/worker_process.py)*)
(*   - ai_reaper_process  (app/api/dashboard_utils/utils/reaper_process.py)*)
(*   - batch_upload / process_hf_upload (app/api/upload.py, hf_upload.py)  *)
(*   - ConnectionManager's rate-limit gate (upload_utils/conn_manager.py)  *)
(* The relational store is PostgreSQL at READ COMMITTED: a transaction's   *)
(* writes become visible at its commit, SELECT ... FOR UPDATE takes a row  *)
(* lock that lasts until commit or rollback, SKIP LOCKED passes over rows  *)
(* another transaction has locked, and an UPDATE of a locked row waits.    *)
(* Time is counted in ticks of five minutes (the greatest common divisor   *)
(* of every interval of the code); a timestamp is kept as its age, the     *)
(* number of ticks since it was written, saturated at the largest          *)
(* threshold it is compared with.                                          *)
(***************************************************************************)
EXTENDS Integers, Sequences, FiniteSets, TLC

\* ----------------------------------------------------------------- bounds

\* how many media rows the ingest path creates
NumTasks == 2
\* how many of the newest media_task_logs rows of a media row are kept
LogWindow == 1
\* how many detections _generate_fake_detections returns at most
MaxDetections == 3
MaxStarts == 3
MaxDays == 2
MaxProcessed == 2

\* -------------------------------------------------------------- constants

\* the fleet: the first names of TITAN_FLEET
TITAN_FLEET == {"Helios", "Eos"}
\* media ids, in the order of created_at
MediaIds == 1..NumTasks
\* SQL NULL / Python None for a worker name
NULL == "NULL"
\* Python None for media_task_id
NoTask == 0
\* Python None for hf_cooldown_until
NoCooldown == -1
\* timedelta(minutes=10), the stale-worker and stale-UPLOADED threshold
StaleTicks == 2
\* timedelta(minutes=15), the stale-PENDING threshold
PendingTicks == 3
\* asyncio.sleep(600), the reaper's interval
ReaperSleepTicks == 2
\* asyncio.sleep(300), the reaper's sleep when the gate is active
ReaperRecheckTicks == 1
\* set_hf_cooldown(hours=1)
CooldownTicks == 12
\* round(random.uniform(0.55, 0.99), 4): a detection's confidence is kept
\* as its number of ten-thousandths
ConfidenceScale == 10000
\* round(max_confidence * 100, 2): a task's confidence is kept as its
\* number of hundredths of a percent
PercentScale == 100

MediaStatus == {"PENDING", "UPLOADED", "EXTRACTING", "PROCESSING", "READY", "FAILED"}

VARIABLES
    status,            \* Media.status, "NONE" for a row not yet inserted
    assigned_worker,   \* Media.assigned_worker
    updated_age,       \* now - Media.updated_at, in ticks
    row_lock,          \* the worker whose open transaction holds the row's FOR UPDATE lock
    logs,              \* media_task_logs rows of each media row, in append order
    failed_reason,     \* Media.failed_reason
    worker_status,     \* AIWorkerState.status
    ping_age,          \* now - AIWorkerState.last_ping, in ticks
    pc,                \* where each worker loop stands
    media_task_id,     \* the worker loop's local media_task_id
    technical_meta,    \* the worker loop's local technical_meta
    hf_cooldown_until, \* manager.hf_cooldown_until - now, in ticks
    reaper_pc,         \* where the reaper stands
    reaper_sleep,      \* ticks left of the reaper's sleep
    stale_pending,     \* the reaper session's stale_pending_tasks
    zombie_tasks,      \* the reaper session's zombie_tasks
    upload_pc,         \* where the ingest path stands for each media row
    fake_detections,   \* the processing stage's fake_detections (their confidences)
    has_trash,         \* Media.has_trash of the task being processed
    confidence,        \* Media.confidence of the task being processed
    rollup_pc,         \* where the processing stage stands in its rollup
    ai_worker_states,  \* the rows of table ai_worker_states
    today,             \* date.today(), in days
    fleet_pc,          \* where each worker loop stands between its heartbeat and its READY
    starts,            \* how many times the process has started
    ready_today        \* the tasks each worker has driven to READY on the current date

vars == <<status, assigned_worker, updated_age, row_lock, logs, failed_reason, worker_status,
          ping_age, pc, media_task_id, technical_meta, hf_cooldown_until, reaper_pc,
          reaper_sleep, stale_pending, zombie_tasks, upload_pc,
          fake_detections, has_trash, confidence, rollup_pc,
          ai_worker_states, today, fleet_pc, starts, ready_today>>

mediaVars == <<status, assigned_worker, updated_age, logs, failed_reason>>
workerRowVars == <<worker_status, ping_age>>
reaperVars == <<reaper_pc, reaper_sleep, stale_pending, zombie_tasks>>
rollupVars == <<fake_detections, has_trash, confidence, rollup_pc>>
fleetVars == <<ai_worker_states, today, fleet_pc, starts, ready_today>>

\* ---------------------------------------------------------------- helpers

\* create_status_change_log: one media_task_logs row
create_status_change_log(status_, worker_name, detail) ==
    [status |-> status_, worker_name |-> worker_name, detail |-> detail]

\* media_task_logs is append-only and its only reader,
\* _build_pending_timeout_detail (reaper_process.py lines 13-20), reads the
\* newest row of a media row: the newest LogWindow rows are kept
Newest(rows) == IF Len(rows) > LogWindow THEN Tail(rows) ELSE rows

\* session.add(create_status_change_log(...)) followed by the commit
AddLog(l, m, entry) == [l EXCEPT ![m] = Newest(Append(@, entry))]

\* the gate with its comparison reversed: limited once the cooldown passed
is_hf_rate_limited_reversed == hf_cooldown_until # NoCooldown /\ hf_cooldown_until <= 0

\* ConnectionManager.is_hf_rate_limited: the value returned
is_hf_rate_limited == hf_cooldown_until # NoCooldown /\ hf_cooldown_until > 0

\* ConnectionManager.is_hf_rate_limited: hf_cooldown_until after the call
CooldownAfterCheck == IF is_hf_rate_limited THEN hf_cooldown_until ELSE NoCooldown

\* a worker_signal.notify(1): one waiting worker resumes
notify_one(p) ==
    IF \E w \in TITAN_FLEET : p[w] = "wait"
    THEN [p EXCEPT ![CHOOSE w \in TITAN_FLEET : p[w] = "wait"] = "start"]
    ELSE p

\* worker_signal.notify_all(): every worker waiting on the condition resumes
notify_all(p) == [w \in TITAN_FLEET |-> IF p[w] = "wait" THEN "start" ELSE p[w]]

\* an order_by(created_at.desc()): the newest row
NewestRow(S) == CHOOSE x \in S : \A y \in S : x >= y

Min(S) == CHOOSE x \in S : \A y \in S : x <= y

\* ------------------------------------------------------------------- Init

InitLoops ==
    /\ status = [m \in MediaIds |-> "NONE"]
    /\ assigned_worker = [m \in MediaIds |-> NULL]
    /\ updated_age = [m \in MediaIds |-> 0]
    /\ row_lock = [m \in MediaIds |-> NULL]
    /\ logs = [m \in MediaIds |-> <<>>]
    /\ failed_reason = [m \in MediaIds |-> NULL]
    /\ worker_status = [w \in TITAN_FLEET |-> "Active"]
    /\ ping_age = [w \in TITAN_FLEET |-> 0]
    /\ pc = [w \in TITAN_FLEET |-> "start"]
    /\ media_task_id = [w \in TITAN_FLEET |-> NoTask]
    /\ technical_meta = [w \in TITAN_FLEET |-> NULL]
    /\ hf_cooldown_until = NoCooldown
    /\ reaper_pc = "sleep"
    /\ reaper_sleep = ReaperSleepTicks
    /\ stale_pending = {}
    /\ zombie_tasks = {}
    /\ upload_pc = [m \in MediaIds |-> "idle"]
    /\ fake_detections = <<>>
    /\ has_trash = FALSE
    /\ confidence = 0
    /\ rollup_pc = "idle"

\* AIWorker.py lines 10-19: the row of `name` as a first start inserts it
FirstRow(name) ==
    [name |-> name, status |-> "Active", tasks_processed_today |-> 0,
     last_reset_date |-> 0, last_ping |-> 0]

\* the process has started once on an empty table: every loop runs
Init ==
    /\ InitLoops
    /\ ai_worker_states = {FirstRow(name) : name \in TITAN_FLEET}
    /\ today = 0
    /\ fleet_pc = [w \in TITAN_FLEET |-> "head"]
    /\ starts = 1
    /\ ready_today = [w \in TITAN_FLEET |-> 0]

\* the process is about to start on the table an earlier deployment left:
\* the rows of a part of the fleet, or none
InitFleet ==
    /\ InitLoops
    /\ \E names \in SUBSET TITAN_FLEET :
          ai_worker_states = {FirstRow(name) : name \in names}
    /\ today = 0
    /\ fleet_pc = [w \in TITAN_FLEET |-> "down"]
    /\ starts = 0
    /\ ready_today = [w \in TITAN_FLEET |-> 0]

\* ------------------------------------------------------ ai_worker_process

\* lines 71-83: the gate is active: heartbeat as 'Paused (Rate Limited)',
\* sleep 300 s and start the next iteration
RateLimitedPause(name) ==
    /\ pc[name] = "start"
    /\ is_hf_rate_limited
    /\ worker_status' = [worker_status EXCEPT ![name] = "Paused (Rate Limited)"]
    /\ ping_age' = [ping_age EXCEPT ![name] = 0]
    /\ pc' = [pc EXCEPT ![name] = "paused"]
    /\ UNCHANGED <<mediaVars, row_lock, media_task_id, technical_meta, hf_cooldown_until,
                   reaperVars, upload_pc>>
    /\ UNCHANGED <<rollupVars, fleetVars>>

\* lines 71 and 85-105: the gate is not active (an expired cooldown is
\* cleared by the check); last_ping = now, status = 'Active', commit
Heartbeat(name) ==
    /\ pc[name] = "start"
    /\ ~is_hf_rate_limited
    /\ hf_cooldown_until' = CooldownAfterCheck
    /\ worker_status' = [worker_status EXCEPT ![name] = "Active"]
    /\ ping_age' = [ping_age EXCEPT ![name] = 0]
    /\ pc' = [pc EXCEPT ![name] = "select"]
    /\ UNCHANGED <<mediaVars, row_lock, media_task_id, technical_meta, reaperVars, upload_pc>>
    /\ UNCHANGED <<rollupVars, fleetVars>>

\* task_query without with_for_update(skip_locked=True): a plain SELECT,
\* which the lock of another transaction does not hold back
TaskQueryRowsNoLock ==
    {m \in MediaIds : status[m] = "UPLOADED" /\ assigned_worker[m] = NULL}

\* task_query with the wrong status in its filter
TaskQueryRowsPending ==
    {m \in MediaIds : /\ status[m] = "PENDING"
                      /\ assigned_worker[m] = NULL
                      /\ row_lock[m] = NULL}

\* lines 107-114: the rows task_query can return: UPLOADED, unassigned and,
\* by SKIP LOCKED, not locked by another transaction
TaskQueryRows ==
    {m \in MediaIds : /\ status[m] = "UPLOADED"
                      /\ assigned_worker[m] = NULL
                      /\ row_lock[m] = NULL}

\* lines 107-124: order_by(created_at.asc()).limit(1).with_for_update: the
\* oldest such row is locked and becomes media_task; none gives None
SelectTask(name) ==
    /\ pc[name] = "select"
    /\ IF TaskQueryRows = {}
       THEN /\ media_task_id' = [media_task_id EXCEPT ![name] = NoTask]
            /\ technical_meta' = [technical_meta EXCEPT ![name] = NULL]
            /\ pc' = [pc EXCEPT ![name] = "idle"]
            /\ UNCHANGED row_lock
       ELSE /\ media_task_id' = [media_task_id EXCEPT ![name] = Min(TaskQueryRows)]
            /\ technical_meta' = [technical_meta EXCEPT ![name] = NULL]
            /\ row_lock' = [row_lock EXCEPT ![Min(TaskQueryRows)] = name]
            /\ pc' = [pc EXCEPT ![name] = "claim"]
    /\ UNCHANGED <<mediaVars, workerRowVars, hf_cooldown_until, reaperVars, upload_pc>>
    /\ UNCHANGED <<rollupVars, fleetVars>>

\* lines 126-135: what the claim writes on the media row
ClaimWrite(name, m) ==
    /\ status' = [status EXCEPT ![m] = "EXTRACTING"]
    /\ assigned_worker' = [assigned_worker EXCEPT ![m] = name]
    /\ updated_age' = [updated_age EXCEPT ![m] = 0]
    /\ logs' = AddLog(logs, m, create_status_change_log("EXTRACTING", name, ""))
    /\ UNCHANGED failed_reason

\* lines 126-142: the claim is written and committed with the worker's
\* status 'Working'; the commit releases the row lock
ClaimCommit(name) ==
    /\ pc[name] = "claim"
    /\ ClaimWrite(name, media_task_id[name])
    /\ row_lock' = [row_lock EXCEPT ![media_task_id[name]] = NULL]
    /\ worker_status' = [worker_status EXCEPT ![name] = "Working"]
    /\ pc' = [pc EXCEPT ![name] = "extract"]
    /\ UNCHANGED <<ping_age, media_task_id, technical_meta, hf_cooldown_until, reaperVars, upload_pc>>
    /\ UNCHANGED <<rollupVars, fleetVars>>

\* lines 126-142 and 321-323: a store error before the commit: the session
\* is rolled back (the row lock goes with it) and the outermost handler
\* sleeps and starts the next iteration
ClaimRaise(name) ==
    /\ pc[name] = "claim"
    /\ row_lock' = [row_lock EXCEPT ![media_task_id[name]] = NULL]
    /\ media_task_id' = [media_task_id EXCEPT ![name] = NoTask]
    /\ technical_meta' = [technical_meta EXCEPT ![name] = NULL]
    /\ pc' = [pc EXCEPT ![name] = "start"]
    /\ UNCHANGED <<mediaVars, workerRowVars, hf_cooldown_until, reaperVars, upload_pc>>
    /\ UNCHANGED <<rollupVars, fleetVars>>

\* lines 142-146: no task: the session is closed and the loop enters
\* worker_signal.wait(); a notify_all issued before this step is not seen
WaitSignal(name) ==
    /\ pc[name] = "idle"
    /\ pc' = [pc EXCEPT ![name] = "wait"]
    /\ UNCHANGED <<mediaVars, row_lock, workerRowVars, media_task_id, technical_meta,
                   hf_cooldown_until, reaperVars, upload_pc>>
    /\ UNCHANGED <<rollupVars, fleetVars>>

\* lines 144-150: the wait on worker_signal ends by notify_all or by the
\* 60 s timeout, and the loop continues
WaitTimeout(name) ==
    /\ pc[name] = "wait"
    /\ pc' = [pc EXCEPT ![name] = "start"]
    /\ UNCHANGED <<mediaVars, row_lock, workerRowVars, media_task_id, technical_meta,
                   hf_cooldown_until, reaperVars, upload_pc>>
    /\ UNCHANGED <<rollupVars, fleetVars>>

\* what hf_hub_download can bring: an image with its EXIF block, an image
\* without one, bytes that are no image
FileBytes == {"image with EXIF", "image without EXIF", "malformed"}

\* metadata_extractor.py lines 53-104: extract_media_metadata: the
\* metadata, or a dictionary with the key "error" when there is no EXIF
\* block or when reading the bytes raised; it never raises
extract_media_metadata(file_bytes) ==
    CASE file_bytes = "image with EXIF" -> "metadata"
      [] file_bytes = "image without EXIF" -> "error: No EXIF data found"
      [] OTHER -> "error: Extraction failed"

\* lines 189-216: update(Media).where(Media.id == media_task_id) with
\* status=PROCESSING and technical_metadata=technical_meta: whatever the
\* row's status and worker are now, and whatever technical_meta holds
ExtractionWrite(name, m) ==
    /\ status' = [status EXCEPT ![m] = "PROCESSING"]
    /\ updated_age' = [updated_age EXCEPT ![m] = 0]
    /\ logs' = AddLog(logs, m, create_status_change_log("PROCESSING", name,
                                        "Extracted EXIF and GPS data"))
    /\ UNCHANGED <<assigned_worker, failed_reason>>

\* lines 160-218: the download returns file_bytes and
\* extract_media_metadata is applied to them; the row is advanced to
\* PROCESSING (the UPDATE waits while the row is locked)
Extract(name, file_bytes) ==
    /\ pc[name] = "extract"
    /\ row_lock[media_task_id[name]] = NULL
    /\ technical_meta' = [technical_meta EXCEPT
                             ![name] = extract_media_metadata(file_bytes)]
    /\ ExtractionWrite(name, media_task_id[name])
    /\ pc' = [pc EXCEPT ![name] = "process"]
    /\ UNCHANGED <<row_lock, workerRowVars, media_task_id, hf_cooldown_until,
                   reaperVars, upload_pc>>
    /\ UNCHANGED <<rollupVars, fleetVars>>

\* the extraction stage on an image that has its EXIF block
ExtractOk(name) == Extract(name, "image with EXIF")

\* the extraction stage on whatever the download brings
ExtractAnyFile(name) == \E file_bytes \in FileBytes : Extract(name, file_bytes)

\* what the extraction stage can raise: the hub's answer to a download
\* over quota (HfHubHTTPError, HTTP 429) or any other exception
ExtractionErrors == {"429 Too Many Requests", "error"}

\* line 235: detail=f"Extraction failed: {e}"
ExtractionFailedDetail(e) ==
    IF e = "429 Too Many Requests"
    THEN "Extraction failed: 429 Too Many Requests"
    ELSE "Extraction failed: error"

\* lines 219-240: update(Media).where(Media.id == media_task_id) with
\* status=FAILED, and the log row of exception e
FailedWrite(name, m, e) ==
    /\ status' = [status EXCEPT ![m] = "FAILED"]
    /\ updated_age' = [updated_age EXCEPT ![m] = 0]
    /\ logs' = AddLog(logs, m, create_status_change_log("FAILED", name,
                                        ExtractionFailedDetail(e)))
    /\ UNCHANGED <<assigned_worker, failed_reason>>

\* lines 162-254: the extraction stage raises (credentials, hf_path,
\* download, or the PROCESSING commit): the handler writes FAILED,
\* sets the worker 'Active'; the loop sleeps 5 s and continues
ExtractFail(name) ==
    /\ pc[name] = "extract"
    /\ row_lock[media_task_id[name]] = NULL
    /\ \E e \in ExtractionErrors : FailedWrite(name, media_task_id[name], e)
    /\ worker_status' = [worker_status EXCEPT ![name] = "Active"]
    /\ media_task_id' = [media_task_id EXCEPT ![name] = NoTask]
    /\ technical_meta' = [technical_meta EXCEPT ![name] = NULL]
    /\ pc' = [pc EXCEPT ![name] = "start"]
    /\ UNCHANGED <<row_lock, ping_age, hf_cooldown_until, reaperVars, upload_pc>>
    /\ UNCHANGED <<rollupVars, fleetVars>>

\* an outermost handler that re-raises: the coroutine ends
OuterHandlerExits(name) ==
    /\ media_task_id' = [media_task_id EXCEPT ![name] = NoTask]
    /\ technical_meta' = [technical_meta EXCEPT ![name] = NULL]
    /\ pc' = [pc EXCEPT ![name] = "exited"]

\* where the outermost handler (lines 321-323) leaves the loop: it logs,
\* sleeps 10 s and the while loop starts the next iteration
OuterHandler(name) ==
    /\ media_task_id' = [media_task_id EXCEPT ![name] = NoTask]
    /\ technical_meta' = [technical_meta EXCEPT ![name] = NULL]
    /\ pc' = [pc EXCEPT ![name] = "start"]

\* lines 219-240 and 321-323: the extraction stage raises and the
\* handler's own store writes raise too: nothing is committed and the
\* exception reaches the outermost handler
ExtractFailRaise(name) ==
    /\ pc[name] = "extract"
    /\ OuterHandler(name)
    /\ UNCHANGED <<mediaVars, row_lock, workerRowVars, hf_cooldown_until,
                   reaperVars, upload_pc>>
    /\ UNCHANGED <<rollupVars, fleetVars>>

\* lines 265-312: task.status = READY on the row loaded by id, flushed as
\* an UPDATE of the changed columns only
ReadyWrite(name, m) ==
    /\ status' = [status EXCEPT ![m] = "READY"]
    /\ updated_age' = [updated_age EXCEPT ![m] = 0]
    /\ logs' = AddLog(logs, m, create_status_change_log("READY", name, ""))
    /\ UNCHANGED <<assigned_worker, failed_reason>>

\* lines 263-319: the processing stage: detections and rollups, READY, the
\* worker 'Active', one commit
ProcessOk(name) ==
    /\ pc[name] = "process"
    /\ row_lock[media_task_id[name]] = NULL
    /\ ReadyWrite(name, media_task_id[name])
    /\ worker_status' = [worker_status EXCEPT ![name] = "Active"]
    /\ media_task_id' = [media_task_id EXCEPT ![name] = NoTask]
    /\ technical_meta' = [technical_meta EXCEPT ![name] = NULL]
    /\ pc' = [pc EXCEPT ![name] = "start"]
    /\ UNCHANGED <<row_lock, ping_age, hf_cooldown_until, reaperVars, upload_pc>>
    /\ UNCHANGED <<rollupVars, fleetVars>>

\* lines 265-312 and 321-323: the processing stage's session raises:
\* nothing is committed and the exception reaches the outermost handler
ProcessRaise(name) ==
    /\ pc[name] = "process"
    /\ OuterHandler(name)
    /\ UNCHANGED <<mediaVars, row_lock, workerRowVars, hf_cooldown_until,
                   reaperVars, upload_pc>>
    /\ UNCHANGED <<rollupVars, fleetVars>>

\* a process that stops for good (killed, or hung in a call that never
\* returns): its loop takes no further step and the store rolls back its
\* open transaction, which releases the row lock it held.  One loop at
\* least keeps running.
Crash(name) ==
    /\ pc[name] # "dead"
    /\ \E other \in TITAN_FLEET \ {name} : pc[other] # "dead"
    /\ pc' = [pc EXCEPT ![name] = "dead"]
    /\ row_lock' = [m \in MediaIds |-> IF row_lock[m] = name THEN NULL ELSE row_lock[m]]
    /\ media_task_id' = [media_task_id EXCEPT ![name] = NoTask]
    /\ technical_meta' = [technical_meta EXCEPT ![name] = NULL]
    /\ UNCHANGED <<mediaVars, workerRowVars, hf_cooldown_until, reaperVars, upload_pc>>
    /\ UNCHANGED <<rollupVars, fleetVars>>

\* ------------------------------------------------------ ai_reaper_process

\* the rows the sweep reads: the media table and the worker table
Store ==
    [status |-> status, assigned_worker |-> assigned_worker,
     updated_age |-> updated_age, logs |-> logs,
     worker_status |-> worker_status, ping_age |-> ping_age]

\* lines 60-66: UPLOADED, unassigned, updated_at <= now - 10 min
StaleUploadedRows(S) ==
    {m \in MediaIds : /\ S.status[m] = "UPLOADED"
                      /\ S.assigned_worker[m] = NULL
                      /\ S.updated_age[m] >= StaleTicks}

\* lines 72-78: PENDING, updated_at <= now - 15 min
StalePendingRows(S) ==
    {m \in MediaIds : S.status[m] = "PENDING" /\ S.updated_age[m] >= PendingTicks}

\* a threshold no last_ping is ever older than
OfflineWorkerNamesNever(S) == {}

\* lines 102-110: last_ping <= now - 10 min, or NULL
OfflineWorkerNames(S) == {w \in TITAN_FLEET : S.ping_age[w] >= StaleTicks}

\* lines 112-121: EXTRACTING or PROCESSING rows assigned to an offline worker
ZombieRows(S) ==
    {m \in MediaIds : /\ S.status[m] \in {"EXTRACTING", "PROCESSING"}
                      /\ S.assigned_worker[m] \in OfflineWorkerNames(S)}

\* a sweep that fails the zombie rows as it fails the stale PENDING rows
SweepStatusFailsZombies(S, failed, zombies, m) ==
    IF m \in zombies \cup failed THEN "FAILED" ELSE S.status[m]

\* lines 98 and 138: the status the sweep gives row m, failed the rows to
\* fail and zombies the rows to demote
SweepStatus(S, failed, zombies, m) ==
    IF m \in zombies THEN "UPLOADED"
    ELSE IF m \in failed THEN "FAILED"
    ELSE S.status[m]

\* lines 99 and 139: task.assigned_worker = None; on a stale PENDING row the
\* attribute was loaded as None, so that the flush writes no such column
SweepAssignedWorker(S, failed, zombies, m) ==
    IF m \in zombies THEN NULL ELSE S.assigned_worker[m]

\* lines 84-89 and 124-129: the log row the sweep adds for row m
SweepLogs(S, failed, zombies, m) ==
    IF m \in zombies
    THEN Newest(Append(S.logs[m],
             create_status_change_log("UPLOADED", NULL, "reaper recovery")))
    ELSE IF m \in failed
    THEN Newest(Append(S.logs[m],
             create_status_change_log("FAILED", NULL, "reaper pending timeout")))
    ELSE S.logs[m]

\* a commit that writes the sweep's log rows and none of its row changes
CommittedLogsOnly(S, failed, zombies) ==
    [S EXCEPT !.logs = [m \in MediaIds |-> SweepLogs(S, failed, zombies, m)]]

\* lines 142-143: the store after session.commit(): every pending change
\* of the sweep is written at once
Committed(S, failed, zombies) ==
    [S EXCEPT !.status = [m \in MediaIds |-> SweepStatus(S, failed, zombies, m)],
              !.assigned_worker =
                  [m \in MediaIds |-> SweepAssignedWorker(S, failed, zombies, m)],
              !.logs = [m \in MediaIds |-> SweepLogs(S, failed, zombies, m)],
              !.updated_age = [m \in MediaIds |->
                                 IF m \in failed \cup zombies THEN 0
                                 ELSE S.updated_age[m]]]

\* lines 53-143: a whole sweep on store S with no other writer in between
Sweep(S) == Committed(S, StalePendingRows(S), ZombieRows(S))

\* lines 47-51: the sleep is over and the gate is active: sleep 300 s,
\* then `continue` into the 600 s sleep at the head of the loop
ReaperSkip ==
    /\ reaper_pc = "sleep"
    /\ reaper_sleep = 0
    /\ is_hf_rate_limited
    /\ reaper_sleep' = ReaperRecheckTicks + ReaperSleepTicks
    /\ UNCHANGED <<mediaVars, row_lock, workerRowVars, pc, media_task_id, technical_meta,
                   hf_cooldown_until, reaper_pc, stale_pending, zombie_tasks,
                   upload_pc>>
    /\ UNCHANGED <<rollupVars, fleetVars>>

\* lines 53-140: the sweep's queries and its pending (unflushed or
\* uncommitted) changes: notify_all on a stale UPLOADED row, the stale
\* PENDING rows to fail, the zombie rows to demote.  With changes_made
\* false there is nothing to commit and the reaper sleeps again.
ReaperSweep ==
    /\ reaper_pc = "sleep"
    /\ reaper_sleep = 0
    /\ ~is_hf_rate_limited
    /\ hf_cooldown_until' = CooldownAfterCheck
    /\ pc' = IF StaleUploadedRows(Store) # {} THEN notify_all(pc) ELSE pc
    /\ stale_pending' = StalePendingRows(Store)
    /\ zombie_tasks' = ZombieRows(Store)
    /\ IF StalePendingRows(Store) \cup ZombieRows(Store) = {}
       THEN reaper_pc' = "sleep" /\ reaper_sleep' = ReaperSleepTicks
       ELSE reaper_pc' = "commit" /\ UNCHANGED reaper_sleep
    /\ UNCHANGED <<mediaVars, row_lock, workerRowVars, media_task_id, technical_meta, upload_pc>>
    /\ UNCHANGED <<rollupVars, fleetVars>>

\* where the reaper's loop goes after a sweep: back to asyncio.sleep(600)
\* with an empty session
ReaperSleeps ==
    /\ stale_pending' = {}
    /\ zombie_tasks' = {}
    /\ reaper_pc' = "sleep"
    /\ reaper_sleep' = ReaperSleepTicks

\* lines 142-143: session.commit() (an UPDATE waits while the row is locked)
ReaperCommit ==
    /\ reaper_pc = "commit"
    /\ \A m \in stale_pending \cup zombie_tasks : row_lock[m] = NULL
    /\ status' = Committed(Store, stale_pending, zombie_tasks).status
    /\ assigned_worker' = Committed(Store, stale_pending, zombie_tasks).assigned_worker
    /\ logs' = Committed(Store, stale_pending, zombie_tasks).logs
    /\ updated_age' = Committed(Store, stale_pending, zombie_tasks).updated_age
    /\ ReaperSleeps
    /\ UNCHANGED <<failed_reason, row_lock, workerRowVars, pc, media_task_id, technical_meta, hf_cooldown_until,
                   upload_pc>>
    /\ UNCHANGED <<rollupVars, fleetVars>>

\* lines 91-96 and 131-136: the manager.send_status calls the running sweep
\* has made, one in each turn of its two loops, before session.commit()
send_status_calls ==
    {[media_id |-> m, status |-> "FAILED"] : m \in stale_pending}
        \cup {[media_id |-> m, status |-> "UPLOADED"] : m \in zombie_tasks}

\* a rollback that comes after the stale PENDING rows were written: the
\* failures stay, the demotions are lost
RolledBackDemotionsOnly(S, failed, zombies) == Committed(S, failed, {})

\* lines 145-147: what session.rollback() leaves of the sweep's pending
\* changes in the store: nothing
RolledBack(S, failed, zombies) == S

\* lines 145-147: a step of the sweep raises: session.rollback(), and the
\* loop goes back to its sleep
ReaperRollback ==
    /\ reaper_pc = "commit"
    /\ status' = RolledBack(Store, stale_pending, zombie_tasks).status
    /\ assigned_worker' = RolledBack(Store, stale_pending, zombie_tasks).assigned_worker
    /\ logs' = RolledBack(Store, stale_pending, zombie_tasks).logs
    /\ updated_age' = RolledBack(Store, stale_pending, zombie_tasks).updated_age
    /\ ReaperSleeps
    /\ UNCHANGED <<failed_reason, row_lock, workerRowVars, pc, media_task_id, technical_meta, hf_cooldown_until,
                   upload_pc>>
    /\ UNCHANGED <<rollupVars, fleetVars>>

\* ------------------------------------------------------------ ingest path

\* upload.py lines 68-125: batch_upload (one file): the row is inserted
\* PENDING with its log row and process_hf_upload is scheduled.  Rows are
\* created in the order of their ids.
BatchUpload(m) ==
    /\ upload_pc[m] = "idle"
    /\ \A k \in MediaIds : k < m => upload_pc[k] # "idle"
    /\ status' = [status EXCEPT ![m] = "PENDING"]
    /\ updated_age' = [updated_age EXCEPT ![m] = 0]
    /\ logs' = AddLog(logs, m, create_status_change_log("PENDING", NULL, ""))
    /\ upload_pc' = [upload_pc EXCEPT ![m] = "uploading"]
    /\ UNCHANGED <<failed_reason, assigned_worker, row_lock, workerRowVars, pc, media_task_id, technical_meta,
                   hf_cooldown_until, reaperVars>>
    /\ UNCHANGED <<rollupVars, fleetVars>>

\* hf_upload.py lines 89-116: create_commit succeeds: status=UPLOADED
\* whatever the row's status is now, its log row, commit, notify_all
UploadOk(m) ==
    /\ upload_pc[m] = "uploading"
    /\ row_lock[m] = NULL
    /\ status' = [status EXCEPT ![m] = "UPLOADED"]
    /\ updated_age' = [updated_age EXCEPT ![m] = 0]
    /\ logs' = AddLog(logs, m, create_status_change_log("UPLOADED", NULL, ""))
    /\ pc' = notify_all(pc)
    /\ upload_pc' = [upload_pc EXCEPT ![m] = "done"]
    /\ UNCHANGED <<failed_reason, assigned_worker, row_lock, workerRowVars, media_task_id, technical_meta,
                   hf_cooldown_until, reaperVars>>
    /\ UNCHANGED <<rollupVars, fleetVars>>

\* hf_upload.py lines 126 and 133: the failed_reason of a failed upload
UploadFailedReason ==
    "Server encountered an issue while saving your files to secure storage."

\* hf_upload.py lines 118-136: the upload raises: status=FAILED with a
\* failed_reason, no log row, commit
UploadFail(m) ==
    /\ upload_pc[m] = "uploading"
    /\ row_lock[m] = NULL
    /\ status' = [status EXCEPT ![m] = "FAILED"]
    /\ failed_reason' = [failed_reason EXCEPT ![m] = UploadFailedReason]
    /\ updated_age' = [updated_age EXCEPT ![m] = 0]
    /\ upload_pc' = [upload_pc EXCEPT ![m] = "done"]
    /\ UNCHANGED <<assigned_worker, logs, row_lock, workerRowVars, pc,
                   media_task_id, technical_meta, hf_cooldown_until, reaperVars>>
    /\ UNCHANGED <<rollupVars, fleetVars>>

\* ------------------------------------------------------------------- time

Inc(age, cap) == IF age < cap THEN age + 1 ELSE cap
Dec(left) == IF left > 0 THEN left - 1 ELSE left

\* a loop that holds no task is never five minutes from its next step: it
\* waits 60 s on worker_signal (line 147), sleeps 5 s (line 253) or 10 s
\* (line 323), and then heartbeats
Timely(name) == pc[name] \notin {"start", "select", "idle"}

\* the reaper wakes when its sleep is over and a sweep is a handful of
\* statements
ReaperTimely == reaper_pc = "sleep" /\ reaper_sleep > 0

\* asyncio.sleep(300) (line 82) and wait_for(worker_signal.wait(), 60)
\* (line 147) are over when five minutes have passed
SleepOver(p) ==
    [w \in TITAN_FLEET |-> IF p[w] \in {"wait", "paused"} THEN "start" ELSE p[w]]

\* five minutes pass: every age grows, every sleep shortens, and the 60 s
\* wait of an idle loop has timed out.  updated_at is read only on PENDING
\* and UPLOADED rows (reaper_process.py lines 60-78) and every change of
\* status refreshes it, so that the age of a row in another status is not
\* counted.  A loop in its download, in a store call or in its processing
\* delay may take any time.
Tick ==
    /\ \A name \in TITAN_FLEET : Timely(name)
    /\ ReaperTimely
    /\ pc' = SleepOver(pc)
    /\ updated_age' = [m \in MediaIds |->
                         IF status[m] \in {"PENDING", "UPLOADED"}
                         THEN Inc(updated_age[m], PendingTicks)
                         ELSE 0]
    /\ ping_age' = [w \in TITAN_FLEET |-> Inc(ping_age[w], StaleTicks)]
    /\ hf_cooldown_until' = Dec(hf_cooldown_until)
    /\ reaper_sleep' = Dec(reaper_sleep)
    /\ UNCHANGED <<status, assigned_worker, logs, failed_reason, row_lock,
                   worker_status, media_task_id, technical_meta, reaper_pc, stale_pending,
                   zombie_tasks, upload_pc>>
    /\ UNCHANGED <<rollupVars, fleetVars>>

\* conn_manager.py lines 58-59: set_hf_cooldown(hours=1)
set_hf_cooldown ==
    /\ hf_cooldown_until' = CooldownTicks
    /\ UNCHANGED <<mediaVars, row_lock, workerRowVars, pc, media_task_id, technical_meta,
                   reaperVars, upload_pc>>
    /\ UNCHANGED <<rollupVars, fleetVars>>

\* ----------------------------------------------- processing-stage rollups

\* the confidences _generate_fake_detections can give (lines 31-56), as
\* ten-thousandths: 0.55 to 0.99
DetectionConfidences == {5500, 6000, 7525, 9000, 9900}

RECURSIVE SeqsUpTo(_, _)
\* the sequences over S of length at most n
SeqsUpTo(S, n) ==
    IF n = 0 THEN {<<>>}
    ELSE SeqsUpTo(S, n - 1) \cup
         {Append(q, x) : q \in {r \in SeqsUpTo(S, n - 1) : Len(r) = n - 1}, x \in S}

\* lines 271-273: fake_detections is [] (not an image, or no trash drawn)
\* or the list _generate_fake_detections returns
DetectionLists == SeqsUpTo(DetectionConfidences, MaxDetections)

\* a rollup that takes the first detection for the largest
first_confidence(dets) == dets[1]

\* line 279: max(d.confidence for d in fake_detections)
max_confidence(dets) ==
    CHOOSE c \in {dets[i] : i \in 1..Len(dets)} :
        \A i \in 1..Len(dets) : dets[i] <= c

\* round(x, 2) of the ratio num / den, in hundredths: the nearest
\* hundredth (no value here lies halfway between two hundredths)
round2(num, den) == (2 * num * PercentScale + den) \div (2 * den)

\* lines 275-291: task.has_trash
RollupHasTrash(dets) == dets # <<>>

\* lines 275-291: task.confidence = round(max_confidence * 100, 2), or 0.0
RollupConfidence(dets) ==
    IF dets # <<>>
    THEN round2(max_confidence(dets) * 100, ConfidenceScale)
    ELSE 0

\* lines 271-273: the processing stage draws its detections
GenerateDetections ==
    /\ rollup_pc = "idle"
    /\ \E dets \in DetectionLists : fake_detections' = dets
    /\ rollup_pc' = "generated"
    /\ UNCHANGED <<has_trash, confidence>>
    /\ UNCHANGED <<mediaVars, row_lock, workerRowVars, pc, media_task_id, technical_meta,
                   hf_cooldown_until, reaperVars, upload_pc>>
    /\ UNCHANGED fleetVars

\* lines 275-295: the rollups are written on the task
Rollup ==
    /\ rollup_pc = "generated"
    /\ has_trash' = RollupHasTrash(fake_detections)
    /\ confidence' = RollupConfidence(fake_detections)
    /\ rollup_pc' = "done"
    /\ UNCHANGED fake_detections
    /\ UNCHANGED <<mediaVars, row_lock, workerRowVars, pc, media_task_id, technical_meta,
                   hf_cooldown_until, reaperVars, upload_pc>>
    /\ UNCHANGED fleetVars

\* ------------------------------------------- worker rows and daily counters

\* AIWorker.py lines 10-19 and init_workers.py lines 31-33: the row that
\* initialize_worker_fleet inserts for `name`
NewRow(name) ==
    [name |-> name, status |-> "Active", tasks_processed_today |-> 0,
     last_reset_date |-> today, last_ping |-> today]

\* an insert ... on_conflict_do_update: the row of `name` is replaced
InsertOrReplace(rows, name) ==
    {r \in rows : r.name # name} \cup {NewRow(name)}

\* init_workers.py lines 29-36: insert ... on_conflict_do_nothing
InsertOnConflictDoNothing(rows, name) ==
    IF \E r \in rows : r.name = name THEN rows ELSE rows \cup {NewRow(name)}

RECURSIVE InsertFleet(_, _)
\* init_workers.py lines 28-36: the insert is run for every fleet name
InsertFleet(rows, names) ==
    IF names = {}
    THEN rows
    ELSE LET name == CHOOSE n \in names : TRUE
         IN  InsertFleet(InsertOnConflictDoNothing(rows, name), names \ {name})

\* init_workers.py lines 24-41: initialize_worker_fleet at a start of the
\* process: the rows are ensured and every loop is created
initialize_worker_fleet ==
    /\ starts < MaxStarts
    /\ starts' = starts + 1
    /\ ai_worker_states' = InsertFleet(ai_worker_states, TITAN_FLEET)
    /\ fleet_pc' = [w \in TITAN_FLEET |-> "head"]
    /\ UNCHANGED <<today, ready_today>>
    /\ UNCHANGED <<mediaVars, row_lock, workerRowVars, pc, media_task_id, technical_meta,
                   hf_cooldown_until, reaperVars, upload_pc, rollupVars>>

\* worker_process.py lines 88-96: tasks_processed_today=0 and
\* last_reset_date=today where last_reset_date != today
DayRollover(r) ==
    IF r.last_reset_date # today
    THEN [r EXCEPT !.tasks_processed_today = 0, !.last_reset_date = today]
    ELSE r

\* worker_process.py lines 85-142: the head of an iteration: the day
\* rollover, the heartbeat, and the claim, which finds a task or none
HeartbeatRow(name) ==
    /\ fleet_pc[name] = "head"
    /\ \E found \in BOOLEAN :
          /\ ai_worker_states' =
                 {IF r.name = name
                  THEN [DayRollover(r) EXCEPT
                           !.last_ping = today,
                           !.status = IF found THEN "Working" ELSE "Active"]
                  ELSE r : r \in ai_worker_states}
          /\ fleet_pc' = [fleet_pc EXCEPT ![name] = IF found THEN "task" ELSE "head"]
    /\ UNCHANGED <<today, starts, ready_today>>
    /\ UNCHANGED <<mediaVars, row_lock, workerRowVars, pc, media_task_id, technical_meta,
                   hf_cooldown_until, reaperVars, upload_pc, rollupVars>>

\* worker_process.py lines 297-304: status="Active" and
\* tasks_processed_today=tasks_processed_today + 1, committed with READY
ReadyCount(name) ==
    /\ fleet_pc[name] = "task"
    /\ ready_today[name] < MaxProcessed
    /\ ai_worker_states' =
           {IF r.name = name
            THEN [r EXCEPT !.status = "Active",
                           !.tasks_processed_today = r.tasks_processed_today + 1]
            ELSE r : r \in ai_worker_states}
    /\ ready_today' = [ready_today EXCEPT ![name] = ready_today[name] + 1]
    /\ fleet_pc' = [fleet_pc EXCEPT ![name] = "head"]
    /\ UNCHANGED <<today, starts>>
    /\ UNCHANGED <<mediaVars, row_lock, workerRowVars, pc, media_task_id, technical_meta,
                   hf_cooldown_until, reaperVars, upload_pc, rollupVars>>

\* worker_process.py lines 219-254: the task ends FAILED: status="Active"
\* and no count
FailedNoCount(name) ==
    /\ fleet_pc[name] = "task"
    /\ ai_worker_states' =
           {IF r.name = name THEN [r EXCEPT !.status = "Active"] ELSE r :
               r \in ai_worker_states}
    /\ fleet_pc' = [fleet_pc EXCEPT ![name] = "head"]
    /\ UNCHANGED <<today, starts, ready_today>>
    /\ UNCHANGED <<mediaVars, row_lock, workerRowVars, pc, media_task_id, technical_meta,
                   hf_cooldown_until, reaperVars, upload_pc, rollupVars>>

\* date.today() changes: no task has been driven to READY on the new date
Midnight ==
    /\ today < MaxDays
    /\ today' = today + 1
    /\ ready_today' = [w \in TITAN_FLEET |-> 0]
    /\ UNCHANGED <<ai_worker_states, fleet_pc, starts>>
    /\ UNCHANGED <<mediaVars, row_lock, workerRowVars, pc, media_task_id, technical_meta,
                   hf_cooldown_until, reaperVars, upload_pc, rollupVars>>

\* --------------------------------------------------------- specifications

Next ==
    \/ \E name \in TITAN_FLEET : Heartbeat(name)
    \/ \E name \in TITAN_FLEET : SelectTask(name)
    \/ \E name \in TITAN_FLEET : ClaimCommit(name)
    \/ \E name \in TITAN_FLEET : ClaimRaise(name)
    \/ \E name \in TITAN_FLEET : WaitSignal(name)
    \/ \E name \in TITAN_FLEET : WaitTimeout(name)
    \/ \E name \in TITAN_FLEET : ExtractOk(name)
    \/ \E name \in TITAN_FLEET : ExtractFail(name)
    \/ \E name \in TITAN_FLEET : ExtractFailRaise(name)
    \/ \E name \in TITAN_FLEET : ProcessOk(name)
    \/ \E name \in TITAN_FLEET : ProcessRaise(name)
    \/ ReaperSweep
    \/ ReaperCommit
    \/ ReaperRollback
    \/ \E m \in MediaIds : BatchUpload(m)
    \/ \E m \in MediaIds : UploadOk(m)
    \/ \E m \in MediaIds : UploadFail(m)
    \/ Tick

\* the program as the repository runs it: set_hf_cooldown has no caller
Spec == Init /\ [][Next]_vars


\* one iteration step of the loop of worker `name` while the store and the
\* hub answer its calls (the extraction itself may still fail)
WorkerStep(name) ==
    \/ Heartbeat(name)
    \/ SelectTask(name)
    \/ ClaimCommit(name)
    \/ WaitSignal(name)
    \/ WaitTimeout(name)
    \/ ExtractOk(name)
    \/ ExtractFail(name)
    \/ ProcessOk(name)

\* the program with a caller of set_hf_cooldown, while the store and the
\* hub answer every call
NextGate ==
    \/ \E name \in TITAN_FLEET : WorkerStep(name)
    \/ \E name \in TITAN_FLEET : RateLimitedPause(name)
    \/ set_hf_cooldown
    \/ ReaperSweep
    \/ ReaperCommit
    \/ ReaperSkip
    \/ \E m \in MediaIds : BatchUpload(m)
    \/ \E m \in MediaIds : UploadOk(m)
    \/ \E m \in MediaIds : UploadFail(m)
    \/ Tick

SpecGate == Init /\ [][NextGate]_vars

\* five minutes pass while no running loop is inside an iteration and no
\* upload is under way: a task that is scheduled finishes its upload, its
\* download and its processing delay (line 263, a few seconds) well
\* within five minutes
TickLive ==
    /\ \A name \in TITAN_FLEET : pc[name] \in {"wait", "paused", "dead"}
    /\ \A m \in MediaIds : upload_pc[m] # "uploading"
    /\ Tick

NextLive ==
    \/ \E name \in TITAN_FLEET : WorkerStep(name)
    \/ \E name \in TITAN_FLEET : Crash(name)
    \/ ReaperSweep
    \/ ReaperCommit
    \/ \E m \in MediaIds : BatchUpload(m)
    \/ \E m \in MediaIds : UploadOk(m)
    \/ \E m \in MediaIds : UploadFail(m)
    \/ TickLive

\* the event loop runs every task that can run (asyncio schedules ready
\* coroutines in turn) and time passes
Fairness ==
    /\ \A name \in TITAN_FLEET : WF_vars(WorkerStep(name))
    /\ WF_vars(ReaperSweep \/ ReaperCommit)
    /\ \A m \in MediaIds : WF_vars(UploadOk(m) \/ UploadFail(m))
    /\ SF_vars(TickLive)

\* fairly scheduled loops, of which one may stop for good
SpecLive == Init /\ [][NextLive]_vars /\ Fairness

\* fairly scheduled loops whose store calls may raise
NextLiveFaults ==
    \/ NextLive
    \/ \E name \in TITAN_FLEET : ClaimRaise(name)
    \/ \E name \in TITAN_FLEET : ExtractFailRaise(name)
    \/ \E name \in TITAN_FLEET : ProcessRaise(name)

SpecLiveFaults == Init /\ [][NextLiveFaults]_vars /\ Fairness

\* one iteration step of the loop of worker `name` on files of every kind
WorkerStepAnyFile(name) ==
    \/ Heartbeat(name)
    \/ SelectTask(name)
    \/ ClaimCommit(name)
    \/ WaitSignal(name)
    \/ WaitTimeout(name)
    \/ ExtractAnyFile(name)
    \/ ExtractFail(name)
    \/ ProcessOk(name)

NextFiles ==
    \/ \E name \in TITAN_FLEET : WorkerStepAnyFile(name)
    \/ ReaperSweep
    \/ ReaperCommit
    \/ \E m \in MediaIds : BatchUpload(m)
    \/ \E m \in MediaIds : UploadOk(m)
    \/ \E m \in MediaIds : UploadFail(m)
    \/ Tick

\* the program on files of every kind, while the store and the hub answer
\* every call
SpecFiles == Init /\ [][NextFiles]_vars

NextFleet ==
    \/ initialize_worker_fleet
    \/ \E name \in TITAN_FLEET : HeartbeatRow(name)
    \/ \E name \in TITAN_FLEET : ReadyCount(name)
    \/ \E name \in TITAN_FLEET : FailedNoCount(name)
    \/ Midnight

\* the worker rows over starts of the process, iterations and days
SpecFleet == InitFleet /\ [][NextFleet]_vars

NextRollup ==
    \/ GenerateDetections
    \/ Rollup

\* the processing stage's rollup on every detection list
SpecRollup == Init /\ [][NextRollup]_vars

\* ----------------------------------------------------------------- claims

InFlight == {"EXTRACTING", "PROCESSING"}

\* the step in which worker `name` commits its claim
ClaimCommitted(name) == pc[name] = "claim" /\ pc'[name] = "extract"

\* C1: no two claim transactions hold the same task at once, and a claim
\* that commits commits a task that was UPLOADED with no assigned worker
\* and that its own transaction had locked: no task is claimed by two
\* workers out of one UPLOADED state.
C1_ClaimAtMostOnce ==
    [][/\ \A a, b \in TITAN_FLEET :
             (a # b /\ pc'[a] = "claim" /\ pc'[b] = "claim")
                 => media_task_id'[a] # media_task_id'[b]
       /\ \A name \in TITAN_FLEET :
             ClaimCommitted(name)
                 => /\ status[media_task_id[name]] = "UPLOADED"
                    /\ assigned_worker[media_task_id[name]] = NULL
                    /\ row_lock[media_task_id[name]] = name]_vars

\* C1 witness: one worker has committed its claim of a task while the
\* other worker's claim transaction is open on another task
C1_Witness ==
    \E a, b \in TITAN_FLEET :
        /\ a # b
        /\ pc[a] = "extract"
        /\ status[media_task_id[a]] = "EXTRACTING"
        /\ assigned_worker[media_task_id[a]] = a
        /\ pc[b] = "claim"
        /\ row_lock[media_task_id[b]] = b

\* C2: a task that is UPLOADED, READY or FAILED has no assigned worker
C2_TerminalUnassigned ==
    \A m \in MediaIds :
        status[m] \in {"UPLOADED", "READY", "FAILED"} => assigned_worker[m] = NULL

\* C3: for every worker, at most one EXTRACTING or PROCESSING task is
\* assigned to it
C3_OneInFlightPerWorker ==
    \A name \in TITAN_FLEET :
        Cardinality({m \in MediaIds :
                        status[m] \in InFlight /\ assigned_worker[m] = name}) <= 1

\* the pipeline's order of the statuses; PENDING is the state before QUEUED
Rank(st) ==
    CASE st = "PENDING" -> 0
      [] st = "UPLOADED" -> 1
      [] st = "EXTRACTING" -> 2
      [] st = "PROCESSING" -> 3
      [] st = "READY" -> 4
      [] st = "FAILED" -> 5

Last(rows) == rows[Len(rows)]

\* log row `new` may follow log row `old`: forward, or to FAILED, or the
\* reaper's demotion to UPLOADED; nothing follows FAILED
MayFollow(old, new) ==
    /\ old.status # "FAILED"
    /\ \/ Rank(new.status) > Rank(old.status)
       \/ new.status = "UPLOADED" /\ new.detail = "reaper recovery"

\* C4: every row appended to a task's log may follow the row before it:
\* the log moves forward along PENDING, UPLOADED, EXTRACTING, PROCESSING,
\* READY or ends in FAILED, with no status repeated and no backward jump
\* other than the reaper's demotion
C4_LogForwardOnly ==
    [][\A m \in MediaIds :
          (logs'[m] # logs[m] /\ logs[m] # <<>>)
              => MayFollow(Last(logs[m]), Last(logs'[m]))]_vars

Abandoned(a, m) ==
    pc[a] = "dead" /\ status[m] = "PROCESSING" /\ assigned_worker[m] = a

\* task m is back in the queue by the reaper's demotion
Recovered(m) ==
    /\ status[m] = "UPLOADED"
    /\ assigned_worker[m] = NULL
    /\ Last(logs[m]) = create_status_change_log("UPLOADED", NULL, "reaper recovery")

C7_SweepIdempotent ==
    /\ Sweep(Sweep(Store)) = Sweep(Store)
    /\ StalePendingRows(Sweep(Store)) = {}
    /\ ZombieRows(Sweep(Store)) = {}

\* C7 witness: a store on which one sweep fails a stale PENDING row and
\* demotes a zombie row
C7_Witness ==
    /\ StalePendingRows(Store) # {}
    /\ ZombieRows(Store) # {}
    /\ Sweep(Store) # Store

\* the step in which the loop of worker `name` starts an iteration
IterationStarts(name) == pc[name] = "start" /\ pc'[name] # "start"

\* C8: an iteration that starts while the cooldown set by set_hf_cooldown
\* has not passed pauses: the worker is 'Paused (Rate Limited)', no row, no
\* lock and no task of the worker changes, and the paused loop does
\* nothing but start again; an iteration that starts after the cooldown
\* has passed goes on to the claim and leaves the cooldown cleared
C8_RateLimitGate ==
    [][\A name \in TITAN_FLEET :
          /\ (IterationStarts(name) /\ hf_cooldown_until > 0)
                 => /\ pc'[name] = "paused"
                    /\ worker_status'[name] = "Paused (Rate Limited)"
                    /\ UNCHANGED <<mediaVars, row_lock, media_task_id, technical_meta,
                                   hf_cooldown_until>>
          /\ (IterationStarts(name) /\ hf_cooldown_until <= 0)
                 => /\ pc'[name] = "select"
                    /\ worker_status'[name] = "Active"
                    /\ hf_cooldown_until' = NoCooldown
          /\ pc[name] = "paused" => pc'[name] \in {"paused", "start"}]_vars

\* C8 witness: a worker that paused on the gate starts an iteration after
\* the cooldown has passed and before anything cleared it
C8_Witness ==
    \E name \in TITAN_FLEET :
        /\ pc[name] = "start"
        /\ worker_status[name] = "Paused (Rate Limited)"
        /\ hf_cooldown_until = 0

\* every step the loop of worker `name` can take
LoopStep(name) ==
    \/ WorkerStep(name)
    \/ RateLimitedPause(name)
    \/ ClaimRaise(name)
    \/ ExtractFailRaise(name)
    \/ ProcessRaise(name)

LoopPositions ==
    {"start", "paused", "select", "idle", "wait", "claim", "extract", "process"}

\* C9: the loop of every worker is always at a position of its while loop
\* and has a next step to take; after an
\* exception at the claim, in the extraction handler or in the processing
\* stage it is at the head of the loop with its next iteration to start
C9_LoopNeverExits ==
    \A name \in TITAN_FLEET :
        /\ pc[name] \in LoopPositions
        /\ ENABLED LoopStep(name)

\* C9 witness: a loop back at its head through the outermost handler: the
\* worker row still says 'Working' and its task is still in flight
C9_Witness ==
    \E name \in TITAN_FLEET : \E m \in MediaIds :
        /\ pc[name] = "start"
        /\ worker_status[name] = "Working"
        /\ status[m] \in InFlight
        /\ assigned_worker[m] = name

\* the rows and the log as the reaper's session would commit them
SweepCommitted == Committed(Store, stale_pending, zombie_tasks)

\* C10: the sweep's queries write nothing; the step that ends a sweep
\* either writes every pending failure, demotion and log row of the sweep
\* at once or leaves every row and the log as they are, and in both cases
\* the reaper is back in its sleep of one full interval
C10_SweepAllOrNothing ==
    [][/\ (reaper_pc = "sleep" /\ reaper_pc' = "commit") => UNCHANGED mediaVars
       /\ (reaper_pc = "commit" /\ reaper_pc' = "sleep")
              => /\ \/ /\ status' = SweepCommitted.status
                       /\ assigned_worker' = SweepCommitted.assigned_worker
                       /\ logs' = SweepCommitted.logs
                    \/ UNCHANGED mediaVars
                 /\ reaper_sleep' = ReaperSleepTicks
                 /\ stale_pending' = {} /\ zombie_tasks' = {}]_vars

\* C10 witness: a sweep with a failure and a demotion pending, about to be
\* committed or rolled back
C10_Witness ==
    /\ reaper_pc = "commit"
    /\ stale_pending # {}
    /\ zombie_tasks # {}
    /\ \A m \in stale_pending : status[m] = "PENDING"
    /\ \A m \in zombie_tasks : status[m] \in InFlight

\* C11: FAILED is terminal: no step changes the status of a task that is
\* FAILED
C11_FailedTerminal ==
    [][\A m \in MediaIds : status[m] = "FAILED" => status'[m] = "FAILED"]_vars

\* C12: READY is terminal: no step changes the status of a task that is
\* READY
C12_ReadyTerminal ==
    [][\A m \in MediaIds : status[m] = "READY" => status'[m] = "READY"]_vars

\* the loop of worker `name` is inside the iteration in which it claimed
\* task m and has not yet written READY or FAILED
HoldsClaim(name, m) ==
    /\ pc[name] \in {"extract", "process"}
    /\ media_task_id[name] = m
    /\ assigned_worker[m] = name

\* C13: while the loop that claimed task m is inside m's iteration, a step
\* that is not a step of that loop leaves m's status and assigned_worker
\* as they are
C13_ExclusiveOwnership ==
    [][\A name \in TITAN_FLEET : \A m \in MediaIds :
          (HoldsClaim(name, m) /\ pc'[name] = pc[name])
              => /\ status'[m] = status[m]
                 /\ assigned_worker'[m] = assigned_worker[m]]_vars

\* C14: every step that changes a task's status appends a log row that
\* carries the new status
C14_EveryTransitionLogged ==
    [][\A m \in MediaIds :
          status'[m] # status[m]
              => /\ logs'[m] # logs[m]
                 /\ Last(logs'[m]).status = status'[m]]_vars

\* C16: the iteration of a worker that is in its processing stage ends
\* with its task READY or FAILED, never still PROCESSING
C16_ProcessingErrorFails ==
    [][\A name \in TITAN_FLEET :
          (pc[name] = "process" /\ pc'[name] # "process")
              => status'[media_task_id[name]] \in {"READY", "FAILED"}]_vars

\* C18: a task that is EXTRACTING or PROCESSING has an assigned worker
C18_InFlightAssigned ==
    \A m \in MediaIds : status[m] \in InFlight => assigned_worker[m] # NULL

\* the step in which a download answered with HTTP 429 is handled: the
\* handler's log row of that exception is appended to task m
RateLimitedDownload(m) ==
    /\ logs'[m] # logs[m]
    /\ Last(logs'[m]).detail = ExtractionFailedDetail("429 Too Many Requests")

\* C15: when the hub answers a worker's download with HTTP 429 the
\* rate-limit gate's cooldown is set, so that is_hf_rate_limited() is true,
\* and the task being handled does not become FAILED
C15_QuotaSetsCooldown ==
    [][\A m \in MediaIds :
          RateLimitedDownload(m)
              => /\ hf_cooldown_until' = CooldownTicks
                 /\ status'[m] # "FAILED"]_vars

\* C17: a task's failed_reason is set exactly when its status is FAILED
C17_FailedReasonIffFailed ==
    \A m \in MediaIds : (failed_reason[m] # NULL) <=> (status[m] = "FAILED")

\* C19: on a task advanced to READY, has_trash is true exactly when the
\* detection list is not empty; confidence is the largest confidence of
\* the list on the 0-100 scale (0.9 and 0.6 give 90.0), and is 0.0 for the
\* empty list
C19_RollupCorrect ==
    rollup_pc = "done"
        => /\ has_trash <=> (Len(fake_detections) > 0)
           /\ Len(fake_detections) = 0 => confidence = 0
           /\ Len(fake_detections) > 0
                  => \E i \in 1..Len(fake_detections) :
                        /\ \A j \in 1..Len(fake_detections) :
                              fake_detections[j] <= fake_detections[i]
                        /\ confidence * ConfidenceScale
                               = fake_detections[i] * 100 * PercentScale
           /\ fake_detections = <<9000, 6000>> => confidence = 90 * PercentScale

\* C19 witness: the rollup of the detections 0.6 and 0.9 is written
C19_Witness ==
    /\ rollup_pc = "done"
    /\ fake_detections = <<6000, 9000>>
    /\ has_trash
    /\ confidence = 9000

\* the rows a sweep finds in flight under a worker whose last_ping is ten
\* minutes old
OrphanedNow ==
    {m \in MediaIds : /\ status[m] \in InFlight
                      /\ assigned_worker[m] \in TITAN_FLEET
                      /\ ping_age[assigned_worker[m]] >= StaleTicks}

\* the step in which the reaper runs the queries of a sweep
SweepRuns == reaper_pc = "sleep" /\ reaper_sleep = 0 /\ reaper_sleep' # 0

\* the step in which the reaper's commit is applied
SweepCommits ==
    /\ reaper_pc = "commit" /\ reaper_pc' = "sleep"
    /\ <<status, assigned_worker, logs>>' # <<status, assigned_worker, logs>>

\* C20: a sweep takes for demotion exactly the EXTRACTING and PROCESSING
\* rows assigned to a worker whose last_ping is ten minutes old, and when
\* it commits each of them is UPLOADED (never FAILED) with no assigned
\* worker and one new log row with detail "reaper recovery"
C20_OrphansDemoted ==
    [][/\ (SweepRuns /\ ~is_hf_rate_limited) => zombie_tasks' = OrphanedNow
       /\ SweepCommits
              => \A m \in zombie_tasks :
                    /\ status'[m] = "UPLOADED"
                    /\ assigned_worker'[m] = NULL
                    /\ logs'[m] = Newest(Append(logs[m],
                          create_status_change_log("UPLOADED", NULL,
                                                   "reaper recovery")))]_vars

\* C20 witness: the sweep has just committed the demotion of a task whose
\* worker's last_ping is ten minutes old
C20_Witness ==
    \E m \in MediaIds : \E name \in TITAN_FLEET :
        /\ reaper_pc = "sleep"
        /\ reaper_sleep = ReaperSleepTicks
        /\ Recovered(m)
        /\ updated_age[m] = 0
        /\ ping_age[name] >= StaleTicks
        /\ media_task_id[name] = m

\* the status worker `name` left its task in when it entered the stage it
\* is in
LeftIn(name) == IF pc[name] = "extract" THEN "EXTRACTING" ELSE "PROCESSING"

\* C22: when a worker ends a stage on a task that is no longer in the
\* status the worker left it in, or no longer assigned to it, the step
\* changes nothing of the task and the loop is back at its head
C22_AdvanceNeverSilent ==
    [][\A name \in TITAN_FLEET :
          (/\ pc[name] \in {"extract", "process"}
           /\ pc'[name] # pc[name]
           /\ \/ status[media_task_id[name]] # LeftIn(name)
              \/ assigned_worker[media_task_id[name]] # name)
              => /\ status'[media_task_id[name]] = status[media_task_id[name]]
                 /\ logs'[media_task_id[name]] = logs[media_task_id[name]]
                 /\ pc'[name] = "start"]_vars

\* the rows that qualify for a claim
Qualifying == {m \in MediaIds : status[m] = "UPLOADED" /\ assigned_worker[m] = NULL}

\* C23: a claim attempt takes a qualifying row (UPLOADED, no assigned
\* worker) such that every older qualifying row is held by another
\* worker's open claim, and finds nothing only when every qualifying row
\* is so held; the claim's commit makes the row EXTRACTING and assigned to
\* the claiming worker
C23_OldestFirst ==
    [][\A name \in TITAN_FLEET :
          /\ (pc[name] = "select" /\ pc'[name] = "claim")
                 => /\ media_task_id'[name] \in Qualifying
                    /\ row_lock[media_task_id'[name]] = NULL
                    /\ \A k \in Qualifying :
                          k < media_task_id'[name]
                              => row_lock[k] \in TITAN_FLEET \ {name}
          /\ (pc[name] = "select" /\ pc'[name] \notin {"select", "claim"})
                 => /\ media_task_id'[name] = NoTask
                    /\ \A k \in Qualifying : row_lock[k] \in TITAN_FLEET \ {name}
          /\ ClaimCommitted(name)
                 => /\ status'[media_task_id[name]] = "EXTRACTING"
                    /\ assigned_worker'[media_task_id[name]] = name]_vars

\* C23 witness: a worker holds the claim of the oldest row while a newer
\* row qualifies and is free
C23_Witness ==
    \E name \in TITAN_FLEET : \E m, k \in MediaIds :
        /\ pc[name] = "claim"
        /\ media_task_id[name] = m
        /\ m < k
        /\ k \in Qualifying
        /\ row_lock[k] = NULL

\* the step in which the reaper wakes and finds the gate active
SweepSkipped ==
    /\ reaper_pc = "sleep" /\ reaper_sleep = 0 /\ reaper_sleep' # 0
    /\ is_hf_rate_limited

\* C25: a reaper that wakes while the gate is active writes nothing, wakes
\* no worker and starts no commit, and its next gate check comes after
\* less than the sweep interval
C25_SkipAndRecheckSooner ==
    [][SweepSkipped
          => /\ UNCHANGED <<mediaVars, pc, stale_pending, zombie_tasks>>
             /\ reaper_pc' = "sleep"
             /\ reaper_sleep' < ReaperSleepTicks]_vars

\* C29: a task is finalised once: no READY row is appended to a log whose
\* newest row is READY already
C29_FinalisedOnce ==
    [][\A m \in MediaIds :
          (/\ logs'[m] # logs[m]
           /\ Last(logs'[m]).status = "READY")
              => (logs[m] = <<>> \/ Last(logs[m]).status # "READY")]_vars

\* the step in which the reaper's sweep is rolled back
SweepRollsBack ==
    /\ reaper_pc = "commit" /\ reaper_pc' = "sleep"
    /\ UNCHANGED <<status, assigned_worker, logs>>

\* C30: a sweep that is rolled back has sent no notification
C30_NotifyOnlyPersisted ==
    [][SweepRollsBack => send_status_calls = {}]_vars

\* the step in which notify_all is called: an upload has committed its
\* UPLOADED row, or a sweep has found a stale UPLOADED row
NotifyAllCalled ==
    \/ \E m \in MediaIds : /\ upload_pc[m] = "uploading"
                           /\ upload_pc'[m] = "done"
                           /\ status'[m] = "UPLOADED"
    \/ SweepRuns /\ ~is_hf_rate_limited /\ StaleUploadedRows(Store) # {}

\* the step in which five minutes pass
TimePasses == reaper_pc = "sleep" /\ reaper_sleep' = reaper_sleep - 1

\* C26: a worker that waits for the signal does nothing but resume at the
\* head of its loop; a notify_all resumes every worker that waits; and no
\* worker is still in the same wait after a time longer than its timeout,
\* whether it was notified or not
C26_WakeSignal ==
    [][\A name \in TITAN_FLEET :
          /\ pc[name] = "wait" => pc'[name] \in {"wait", "start"}
          /\ (NotifyAllCalled /\ pc[name] = "wait") => pc'[name] = "start"
          /\ (TimePasses /\ pc[name] = "wait") => pc'[name] = "start"]_vars

\* C26 witness: every worker waits for the signal while a row uploaded less
\* than five minutes ago qualifies for a claim: its notify_all came between
\* their empty claim attempts and their waits
C26_Witness ==
    /\ \A name \in TITAN_FLEET : pc[name] = "wait"
    /\ \E m \in Qualifying :
          /\ row_lock[m] = NULL
          /\ updated_age[m] = 0
          /\ Last(logs[m]) = create_status_change_log("UPLOADED", NULL, "")

\* the step in which the extraction stage of worker `name` ends without
\* the metadata of its file: it raised, or extract_media_metadata gave an
\* error
ExtractionFailed(name) ==
    /\ pc[name] = "extract"
    /\ pc'[name] # "extract"
    /\ technical_meta'[name] # "metadata"

\* C21: an extraction that fails leaves the task FAILED with a FAILED log
\* row that tells the reason, the worker 'Active' and the loop at its head
\* with no task: neither PROCESSING nor READY is written
C21_ExtractionFailureFails ==
    [][\A name \in TITAN_FLEET :
          ExtractionFailed(name)
              => /\ status'[media_task_id[name]] = "FAILED"
                 /\ Last(logs'[media_task_id[name]]).status = "FAILED"
                 /\ Last(logs'[media_task_id[name]]).detail # ""
                 /\ worker_status'[name] = "Active"
                 /\ pc'[name] = "start"
                 /\ media_task_id'[name] = NoTask]_vars

\* a task in flight whose worker is at the head of its loop, or in a later
\* iteration, after an exception reached its outermost handler
LeftInFlight(m) ==
    /\ status[m] \in InFlight
    /\ assigned_worker[m] \in TITAN_FLEET
    /\ \A name \in TITAN_FLEET :
          assigned_worker[m] = name
              => pc[name] # "dead" /\ media_task_id[name] # m

\* C28: while time passes without end, a task left in flight by the
\* outermost handler is in time UPLOADED again, READY or FAILED
C28_LeftInFlightRecovered ==
    ([]<><<TickLive>>_vars)
        => \A m \in MediaIds :
              LeftInFlight(m) ~> (status[m] \in {"UPLOADED", "READY", "FAILED"})

\* C24: the counter of a worker whose last_reset_date is the current date
\* is the number of tasks the worker has driven to READY on that date
C24_CounterIsReadyToday ==
    \A r \in ai_worker_states :
        r.last_reset_date = today
            => r.tasks_processed_today = ready_today[r.name]

\* C27: a start of the process leaves every row it finds as it is, inserts
\* rows for absent fleet names only, and leaves one row for each fleet name
C27_FleetInitIdempotent ==
    [][starts' # starts
          => /\ \A r \in ai_worker_states : r \in ai_worker_states'
             /\ \A r \in ai_worker_states' \ ai_worker_states :
                   /\ r.name \in TITAN_FLEET
                   /\ \A q \in ai_worker_states : q.name # r.name
             /\ \A name \in TITAN_FLEET :
                   Cardinality({r \in ai_worker_states' : r.name = name}) = 1]_vars

\* C27 witness: the process has started again on the row of a worker that
\* had counted a task and was at work on another
C27_Witness ==
    \E r \in ai_worker_states :
        /\ starts > 1
        /\ fleet_pc[r.name] = "head"
        /\ r.status = "Working"
        /\ r.tasks_processed_today > 0

====
